---- MODULE Spec2Model ----
(***************************************************************************)
(* A model of FileTransferSocket (src/file_transfer_protocol.py): the      *)
(* sliding-window sender of send_file / send_file_with_errors, the         *)
(* cumulative-ACK receiver of receive_file, the packet codec, and the      *)
(* datagram network between the two endpoints.                             *)
(*                                                                         *)
(* Datagrams are byte sequences, built and parsed as the codec does.  The  *)
(* two endpoints are sequential processes; each action is the code an      *)
(* endpoint runs between two blocking points (a recvfrom or a sendto).     *)
(***************************************************************************)
EXTENDS Integers, Sequences, FiniteSets, TLC

(***************************************************************************)
(* Bounds of the model.                                                    *)
(***************************************************************************)
\* Bytes per chunk read by f.read(CHUNK_SIZE).  The source reads 1024 bytes
\* at a time; the model reads ChunkSize bytes so that files of several chunks
\* stay small.  The protocol uses the chunk size in the read loop only.
ChunkSize == 11
\* Bytes of the largest input file (four chunks).
MaxFileLen == 36
\* Bytes of the three-chunk file of the fault-injection, corruption and
\* fairness specifications.
MidFileLen == 25
\* Bytes of a short final chunk.
ShortTail == 3
\* Datagrams the network may deliver a second time during one transfer.
MaxDup == 1
\* Datagrams the network may alter during one transfer (SpecCorrupt).
MaxCorrupt == 1
\* The sendto calls after which no further timeout fires (SpecLossless).
MaxSent == 8
\* The largest number the model holds: an unpacked number at or above it
\* is kept as Huge (Python's integers are unbounded; the model only
\* compares such a number with sequence numbers and adds 1 to it).
Huge == 1073741824

(***************************************************************************)
(* Protocol constants.                                                     *)
(***************************************************************************)
RECV_WINDOW_SIZE == 10
INITIAL_CWND == 1
SSTHRESH_INIT == 64
PKT_METADATA == 2
PKT_DATA == 3
PKT_ACK == 4
PKT_EOF == 5
PKT_SYN == 0
PKT_SYN_ACK == 1
PKT_FIN == 6
PKT_FIN_ACK == 7
\* The payload offset send_file_with_errors flips (corrupted_chunk[10]).
CorruptIndex == 10
\* The fast-retransmit threshold (dup_ack_count == 3).
DupAckThreshold == 3

Min(a, b) == IF a < b THEN a ELSE b
Max(a, b) == IF a > b THEN a ELSE b

(***************************************************************************)
(* struct.pack / struct.unpack, big-endian unsigned.  (An operator that    *)
(* uses an argument many times takes it from a one-element set, which      *)
(* binds it to its value.)                                                 *)
(***************************************************************************)
\* The w low-order bytes of n, most significant first.
RECURSIVE PackBE(_, _)
PackBE(n, w) ==
    IF w = 0 THEN <<>> ELSE Append(PackBE(n \div 256, w - 1), n % 256)

\* The unsigned value of the bytes bs[i..], most significant first, after acc.
RECURSIVE UnpackFrom(_, _, _)
UnpackFrom(bs, i, acc) ==
    IF i > Len(bs) THEN acc
    ELSE IF acc >= Huge \div 256 THEN Huge
    ELSE UnpackFrom(bs, i + 1, 256 * acc + bs[i])
UnpackBE(bs) == CHOOSE v \in {UnpackFrom(b, 1, 0) : b \in {bs}} : TRUE

\* struct.pack raises struct.error for a negative argument of an unsigned
\* format ('I', 'H', 'Q').  Every value of the model lies below the format's
\* upper limit, so the lower limit is the one that decides.
CanPack(n) == n >= 0

\* Python's packet[a:b] (0-based, end exclusive, clamped to the buffer).
Slice(p, a, b) == SubSeq(p, a + 1, Min(b, Len(p)))

\* Python's sum(data) over a bytes object.
RECURSIVE SumFrom(_, _)
SumFrom(data, i) == IF i > Len(data) THEN 0 ELSE data[i] + SumFrom(data, i + 1)
SumBytes(data) == CHOOSE v \in {SumFrom(d, 1) : d \in {data}} : TRUE

\* n & 0xFFFFFFFF: the value of the four low-order bytes of n.
Mask32(n) == CHOOSE v \in {UnpackBE(PackBE(m, 4)) : m \in {n}} : TRUE

\* a ^ b on bytes.
RECURSIVE XorBits(_, _, _)
XorBits(a, b, k) ==
    IF k = 0 THEN 0
    ELSE (((a % 2) + (b % 2)) % 2) + 2 * XorBits(a \div 2, b \div 2, k - 1)
Xor(a, b) == XorBits(a, b, 8)

(***************************************************************************)
(* Packet codec.                                                           *)
(***************************************************************************)
\* str.encode('utf-8') of a string, given as its code points.
Utf8EncodeOne(cp) ==
    IF cp < 128 THEN <<cp>>
    ELSE IF cp < 2048 THEN <<192 + (cp \div 64), 128 + (cp % 64)>>
    ELSE IF cp < 65536 THEN
        <<224 + (cp \div 4096), 128 + ((cp \div 64) % 64), 128 + (cp % 64)>>
    ELSE <<240 + (cp \div 262144), 128 + ((cp \div 4096) % 64),
           128 + ((cp \div 64) % 64), 128 + (cp % 64)>>
RECURSIVE Utf8Encode(_)
Utf8Encode(str) ==
    IF str = <<>> THEN <<>> ELSE Utf8EncodeOne(Head(str)) \o Utf8Encode(Tail(str))

\* bytes.decode('utf-8'): the code points, or DecodeError where Python
\* raises UnicodeDecodeError.
DecodeError == <<-1>>
IsCont(bs, i) == i <= Len(bs) /\ bs[i] >= 128 /\ bs[i] < 192
RECURSIVE Utf8DecodeFrom(_, _, _)
Utf8DecodeFrom(bs, i, acc) ==
    IF i > Len(bs) THEN acc
    ELSE IF bs[i] < 128 THEN Utf8DecodeFrom(bs, i + 1, Append(acc, bs[i]))
    ELSE IF bs[i] >= 194 /\ bs[i] < 224 /\ IsCont(bs, i + 1) THEN
        Utf8DecodeFrom(bs, i + 2,
            Append(acc, (bs[i] - 192) * 64 + (bs[i + 1] - 128)))
    ELSE IF bs[i] >= 224 /\ bs[i] < 240 /\ IsCont(bs, i + 1) /\ IsCont(bs, i + 2) THEN
        LET cp == (bs[i] - 224) * 4096 + (bs[i + 1] - 128) * 64 + (bs[i + 2] - 128)
        IN IF cp < 2048 \/ (cp >= 55296 /\ cp < 57344) THEN DecodeError
           ELSE Utf8DecodeFrom(bs, i + 3, Append(acc, cp))
    ELSE IF /\ bs[i] >= 240 /\ bs[i] < 245
            /\ IsCont(bs, i + 1) /\ IsCont(bs, i + 2) /\ IsCont(bs, i + 3) THEN
        LET cp == (bs[i] - 240) * 262144 + (bs[i + 1] - 128) * 4096
                    + (bs[i + 2] - 128) * 64 + (bs[i + 3] - 128)
        IN IF cp < 65536 \/ cp > 1114111 THEN DecodeError
           ELSE Utf8DecodeFrom(bs, i + 4, Append(acc, cp))
    ELSE DecodeError
Utf8Decode(bs) == Utf8DecodeFrom(bs, 1, <<>>)

create_metadata_packet(filename, filesize) ==
    LET filename_bytes == Utf8Encode(filename)
    IN <<PKT_METADATA>> \o PackBE(Len(filename_bytes), 2) \o filename_bytes
           \o PackBE(filesize, 8)

ChecksumOf(data) == Mask32(SumBytes(data))

\* A faulty variant of create_data_packet: the checksum covers the sequence
\* number as well as the payload.
create_data_packet_header_sum(seq_num, data) ==
    <<PKT_DATA>> \o PackBE(seq_num, 4) \o PackBE(Len(data), 2)
        \o PackBE(ChecksumOf(PackBE(seq_num, 4) \o data), 4) \o data

create_data_packet(seq_num, data) ==
    <<PKT_DATA>> \o PackBE(seq_num, 4) \o PackBE(Len(data), 2)
        \o PackBE(ChecksumOf(data), 4) \o data

create_eof_packet == <<PKT_EOF>>

create_ack_packet(ack_num) == <<PKT_ACK>> \o PackBE(ack_num, 4)

\* struct.pack('!B', PKT_SYN) and the like.
syn_packet == <<PKT_SYN>>
syn_ack_packet == <<PKT_SYN_ACK>>
fin_packet == <<PKT_FIN>>
fin_ack_packet == <<PKT_FIN_ACK>>
\* struct.unpack('!B', data[0:1])[0] in connect, accept, disconnect and
\* handle_disconnect.
unpack_type(data) == UnpackBE(Slice(data, 0, 1))

\* The value of a parse: its packet type (NoType for Python's None) and its
\* content (None, a number, or a tuple).
None == <<>>
NoType == -1

parse_packet(packet) ==
    LET pkt_type == packet[1] IN
    IF pkt_type = PKT_METADATA THEN
        LET filename_len == UnpackBE(Slice(packet, 1, 3))
            filename == Utf8Decode(Slice(packet, 3, 3 + filename_len))
            filesize == UnpackBE(Slice(packet, 3 + filename_len, 3 + filename_len + 8))
        IN [type |-> pkt_type, content |-> <<filename, filesize>>]
    ELSE IF pkt_type = PKT_DATA THEN
        LET seq_num == UnpackBE(Slice(packet, 1, 5))
            data_len == UnpackBE(Slice(packet, 5, 7))
            checksum == UnpackBE(Slice(packet, 7, 11))
            data == Slice(packet, 11, 11 + data_len)
            computed_checksum == ChecksumOf(data)
        IN IF computed_checksum # checksum
           THEN [type |-> pkt_type, content |-> None]
           ELSE [type |-> pkt_type, content |-> <<seq_num, data>>]
    ELSE IF pkt_type = PKT_ACK THEN
        [type |-> pkt_type, content |-> UnpackBE(Slice(packet, 1, 5))]
    ELSE IF pkt_type = PKT_EOF THEN
        [type |-> pkt_type, content |-> None]
    ELSE [type |-> NoType, content |-> None]

(***************************************************************************)
(* State.                                                                  *)
(***************************************************************************)
VARIABLES
    \* inputs of the transfer
    file,               \* the bytes of the input file
    file_exists,        \* os.path.exists(filepath)
    capture,            \* whether the sendto calls of the transfer are recorded
    drop_packets,       \* send_file_with_errors: sequences to drop
    corrupt_packets,    \* send_file_with_errors: sequences to corrupt
    \* sender (send_file, send_file_with_errors)
    spc,                \* "idle", "loop", "done"
    chunks,             \* the file, read in chunks
    send_base,
    next_seq_num,
    cwnd,               \* a fraction <<numerator, denominator>>
    ssthresh,
    dup_ack_count,
    last_ack,
    already_errored,
    packets_dropped,
    packets_corrupted,
    last_event,         \* what the sender's last step was (history)
    \* receiver (receive_file)
    rpc,                \* "idle", "meta", "loop", "done", "failed", "error"
    expected_seq,
    recv_window,        \* a function from sequence numbers to payloads
    received_chunks,    \* the delivered list, of <<seq, payload>>
    written,            \* the bytes written to the output file
    last_ack_sent,      \* the last number given to _create_ack_packet (history)
    \* network
    s2r,                \* datagrams in flight to the receiver
    r2s,                \* datagrams in flight to the sender
    dups,               \* datagrams delivered twice so far
    corrupts,           \* datagrams altered so far
    sent,               \* the datagrams given to sendto by send_file and
                        \* receive_file, in order, while capture is on (history)
    \* connection manager, per socket
    bound,
    connected,
    peer_addr,
    call,               \* the session call a socket is blocked in
    returned,           \* the last session call or refused setup that
                        \* returned, and its value (history)
    \* packet codec, applied to one packet
    cpc,                \* "none", "chosen", "encoded", "decoded"
    variant,            \* the packet: its type and its fields
    wire,               \* its bytes
    parsed              \* what _parse_packet returns for the bytes

inVars == <<file, file_exists, capture, drop_packets, corrupt_packets>>
sndVars == <<spc, chunks, send_base, next_seq_num, cwnd, ssthresh,
             dup_ack_count, last_ack, already_errored, packets_dropped,
             packets_corrupted, last_event>>
errVars == <<already_errored, packets_dropped, packets_corrupted>>
rcvVars == <<rpc, expected_seq, recv_window, received_chunks, written,
             last_ack_sent>>
sessVars == <<bound, connected, peer_addr, call, returned>>
codecVars == <<cpc, variant, wire, parsed>>
vars == <<inVars, sndVars, rcvVars, s2r, r2s, dups, corrupts, sent, sessVars,
          codecVars>>

(***************************************************************************)
(* Input files: byte i of a file is i mod 256, so the chunks of a file     *)
(* differ from one another.  The lengths give the empty file, files of    *)
(* one chunk (short, full), of two, of three chunks and the largest file.  *)
(***************************************************************************)
FileOfLen(n) == [i \in 1..n |-> i % 256]
FileLens ==
    {0, ShortTail, ChunkSize, ChunkSize + ShortTail, MidFileLen, MaxFileLen}
LargestFile == FileOfLen(MaxFileLen)
MidFile == FileOfLen(MidFileLen)
\* The sequence numbers of MidFile.
MidSeqs == 0..((MidFileLen - 1) \div ChunkSize)
Files == {FileOfLen(n) : n \in FileLens}
\* os.path.basename(filepath), as code points: "f".
FileName == <<102>>

\* The read loop: f.read(CHUNK_SIZE) until it returns nothing.
RECURSIVE ReadChunks(_)
ReadChunks(f) ==
    IF f = <<>> THEN <<>>
    ELSE <<SubSeq(f, 1, Min(ChunkSize, Len(f)))>>
            \o ReadChunks(SubSeq(f, ChunkSize + 1, Len(f)))

RECURSIVE Concat(_)
Concat(ss) == IF ss = <<>> THEN <<>> ELSE ss[1] \o Concat(Tail(ss))

(***************************************************************************)
(* cwnd is a float in the source; the model keeps it as an exact fraction. *)
(***************************************************************************)
Floor(c) == c[1] \div c[2]                     \* int(self.cwnd)
HalfFloor(c) == c[1] \div (2 * c[2])           \* int(self.cwnd / 2)
LessThan(c, k) == c[1] < k * c[2]              \* self.cwnd < k
AddOne(c) == <<c[1] + c[2], c[2]>>             \* self.cwnd += 1
AddInverse(c) == <<c[1] * c[1] + c[2] * c[2], c[1] * c[2]>>  \* += 1.0 / cwnd
Whole(k) == <<k, 1>>

total_chunks == Len(chunks)
\* A faulty variant of effective_window: one packet more than the window.
effective_window_plus_one == Min(Floor(cwnd), RECV_WINDOW_SIZE) + 1
effective_window == Min(Floor(cwnd), RECV_WINDOW_SIZE)

\* The condition of the inner (window) loop.
WindowOpen ==
    /\ next_seq_num < total_chunks
    /\ next_seq_num < send_base + effective_window

\* The sender is in the outer loop, at the window loop.
AtWindowLoop == spc = "loop" /\ send_base < total_chunks /\ WindowOpen
\* The sender is in the outer loop, blocked in recvfrom.
AtRecv == spc = "loop" /\ send_base < total_chunks /\ ~WindowOpen

(***************************************************************************)
(* The network: sendto puts a datagram in flight unless the network loses  *)
(* it; a delivery takes it out of flight unless the network duplicates it. *)
(***************************************************************************)
Sent(net, pkt, lost) == IF lost THEN net ELSE net \cup {pkt}
Taken(net, pkt, keep) == IF keep THEN net ELSE net \ {pkt}
MayKeep(keep) == keep => dups < MaxDup
DupCount(keep) == IF keep THEN dups + 1 ELSE dups

\* The record of a sendto call.
Captured(log, pkt) == IF capture THEN Append(log, pkt) ELSE log

\* The dict {}.
EmptyWindow == [k \in {} |-> <<>>]

\* The two sockets of a session, named by their addresses: the one that
\* connects and sends the file, the one that binds, accepts and receives it.
Sender == "S"
Receiver == "R"
Sockets == {Sender, Receiver}
PeerOf(s) == IF s = Sender THEN Receiver ELSE Sender
\* peer_addr = None.
NoAddr == "None"
\* The guard of send_file, receive_file, disconnect and handle_disconnect.
IsConnected(s) == connected[s] /\ peer_addr[s] # NoAddr

\* The state after both sockets are constructed and connected, before
\* send_file(f) or send_file_with_errors(f, corrupt, drop) and receive_file
\* are called; the network has duplicated d datagrams so far.
InitTransfer(f, drop, corrupt, d) ==
    /\ file = f
    /\ drop_packets = drop
    /\ corrupt_packets = corrupt
    /\ spc = "idle"
    /\ chunks = <<>>
    /\ send_base = 0
    /\ next_seq_num = 0
    /\ cwnd = Whole(INITIAL_CWND)
    /\ ssthresh = SSTHRESH_INIT
    /\ dup_ack_count = 0
    /\ last_ack = -1
    /\ already_errored = {}
    /\ packets_dropped = 0
    /\ packets_corrupted = 0
    /\ last_event = "none"
    /\ expected_seq = 0
    /\ recv_window = EmptyWindow
    /\ received_chunks = <<>>
    /\ written = <<>>
    /\ last_ack_sent = NoType
    /\ s2r = {}
    /\ r2s = {}
    /\ dups = d
    /\ corrupts = 0
    /\ sent = <<>>

\* The sockets are connected and receive_file waits for its first datagram.
InitSockets(f, drop, corrupt, d) ==
    /\ InitTransfer(f, drop, corrupt, d)
    /\ file_exists = TRUE
    /\ rpc = "meta"
    /\ bound = [s \in Sockets |-> s = Receiver]
    /\ connected = [s \in Sockets |-> TRUE]
    /\ peer_addr = [s \in Sockets |-> PeerOf(s)]
    /\ call = [s \in Sockets |-> "none"]
    /\ returned = [s \in Sockets |->
                      IF s = Sender THEN <<"connect", "True">>
                      ELSE <<"accept", "True">>]

\* No packet is given to the codec on its own.
NoVariant == [type |-> NoType, fields |-> None]
NoParse == [type |-> NoType, content |-> None]
InitState(f, drop, corrupt, d) ==
    /\ InitSockets(f, drop, corrupt, d)
    /\ capture = FALSE
    /\ cpc = "none"
    /\ variant = NoVariant
    /\ wire = <<>>
    /\ parsed = NoParse

Init == \E f \in Files : InitState(f, {}, {}, 0)

(***************************************************************************)
(* Sender.                                                                 *)
(***************************************************************************)
\* send_file up to its loop: METADATA, the reset of the sender state, the
\* file read into chunks.
SendFile ==
    /\ spc = "idle"
    /\ call[Sender] = "none"
    /\ IsConnected(Sender)
    /\ file_exists
    /\ s2r' = s2r \cup {create_metadata_packet(FileName, Len(file))}
    /\ send_base' = 0
    /\ next_seq_num' = 0
    /\ cwnd' = Whole(INITIAL_CWND)
    /\ ssthresh' = SSTHRESH_INIT
    /\ dup_ack_count' = 0
    /\ last_ack' = -1
    /\ chunks' = ReadChunks(file)
    /\ spc' = "loop"
    /\ last_event' = "start"
    /\ sent' = Captured(sent, create_metadata_packet(FileName, Len(file)))
    /\ UNCHANGED <<codecVars, inVars, sessVars, errVars, rcvVars, r2s, dups, corrupts>>

\* One pass of the window loop of send_file: one DATA packet.
SendData(lost) ==
    /\ AtWindowLoop
    /\ s2r' = Sent(s2r, create_data_packet(next_seq_num, chunks[next_seq_num + 1]), lost)
    /\ next_seq_num' = next_seq_num + 1
    /\ last_event' = "data"
    /\ sent' = Captured(sent, create_data_packet(next_seq_num, chunks[next_seq_num + 1]))
    /\ UNCHANGED <<codecVars, inVars, sessVars, spc, chunks, send_base, cwnd, ssthresh, dup_ack_count,
                   last_ack, errVars, rcvVars, r2s, dups, corrupts>>

\* A faulty variant of IsNewAck: any number other than the last one is new.
IsNewAckUnordered(ack_num) == ack_num # last_ack
\* The test of the new-ACK branch.
IsNewAck(ack_num) == ack_num >= send_base /\ ack_num > last_ack
\* The test of the duplicate-ACK branch.
IsDupAck(ack_num) == ack_num = last_ack /\ last_ack >= 0

\* The window growth on a new ACK.
GrowCwnd(c) == IF LessThan(c, ssthresh) THEN AddOne(c) ELSE AddInverse(c)

\* A faulty variant of ReducedSsthresh: half the window, with no floor of 2.
ReducedSsthreshNoFloor == HalfFloor(cwnd)
\* The reduction both loss signals make.
ReducedSsthresh == Max(HalfFloor(cwnd), 2)

\* A faulty variant of HandleAck: fast retransmit at every duplicate ACK
\* from the third on.
HandleAckRefire(ack_num) ==
    IF IsNewAck(ack_num) THEN
        /\ send_base' = ack_num + 1
        /\ dup_ack_count' = 0
        /\ last_ack' = ack_num
        /\ cwnd' = GrowCwnd(cwnd)
        /\ last_event' = "new"
        /\ UNCHANGED <<ssthresh, next_seq_num>>
    ELSE IF IsDupAck(ack_num) THEN
        /\ dup_ack_count' = dup_ack_count + 1
        /\ IF dup_ack_count + 1 >= DupAckThreshold
           THEN /\ ssthresh' = ReducedSsthresh
                /\ cwnd' = Whole(ReducedSsthresh + 3)
                /\ next_seq_num' = send_base
                /\ last_event' = "fast"
           ELSE /\ UNCHANGED <<ssthresh, cwnd, next_seq_num>>
                /\ last_event' = "dup"
        /\ UNCHANGED <<send_base, last_ack>>
    ELSE
        /\ last_event' = "stale"
        /\ UNCHANGED <<send_base, dup_ack_count, last_ack, cwnd, ssthresh,
                       next_seq_num>>

\* A faulty variant of HandleAck: a new ACK rewinds next_seq_num to the new
\* send_base.
HandleAckRewinds(ack_num) ==
    IF IsNewAck(ack_num) THEN
        /\ send_base' = ack_num + 1
        /\ dup_ack_count' = 0
        /\ last_ack' = ack_num
        /\ cwnd' = GrowCwnd(cwnd)
        /\ last_event' = "new"
        /\ next_seq_num' = ack_num + 1
        /\ UNCHANGED ssthresh
    ELSE IF IsDupAck(ack_num) THEN
        /\ dup_ack_count' = dup_ack_count + 1
        /\ IF dup_ack_count + 1 = DupAckThreshold
           THEN /\ ssthresh' = ReducedSsthresh
                /\ cwnd' = Whole(ReducedSsthresh + 3)
                /\ next_seq_num' = send_base
                /\ last_event' = "fast"
           ELSE /\ UNCHANGED <<ssthresh, cwnd, next_seq_num>>
                /\ last_event' = "dup"
        /\ UNCHANGED <<send_base, last_ack>>
    ELSE
        /\ last_event' = "stale"
        /\ UNCHANGED <<send_base, dup_ack_count, last_ack, cwnd, ssthresh,
                       next_seq_num>>

\* The sender's handling of one ACK number (both senders).
HandleAck(ack_num) ==
    IF IsNewAck(ack_num) THEN
        /\ send_base' = ack_num + 1
        /\ dup_ack_count' = 0
        /\ last_ack' = ack_num
        /\ cwnd' = GrowCwnd(cwnd)
        /\ last_event' = "new"
        /\ UNCHANGED <<ssthresh, next_seq_num>>
    ELSE IF IsDupAck(ack_num) THEN
        /\ dup_ack_count' = dup_ack_count + 1
        /\ IF dup_ack_count + 1 = DupAckThreshold
           THEN /\ ssthresh' = ReducedSsthresh
                /\ cwnd' = Whole(ReducedSsthresh + 3)
                /\ next_seq_num' = send_base
                /\ last_event' = "fast"
           ELSE /\ UNCHANGED <<ssthresh, cwnd, next_seq_num>>
                /\ last_event' = "dup"
        /\ UNCHANGED <<send_base, last_ack>>
    ELSE
        /\ last_event' = "stale"
        /\ UNCHANGED <<send_base, dup_ack_count, last_ack, cwnd, ssthresh,
                       next_seq_num>>

\* recvfrom returns a datagram in the sender's loop.
RecvAck(pkt, keep) ==
    /\ AtRecv
    /\ pkt \in r2s
    /\ MayKeep(keep)
    /\ r2s' = Taken(r2s, pkt, keep)
    /\ dups' = DupCount(keep)
    /\ \E p \in {parse_packet(pkt)} :
         IF p.type = PKT_ACK
         THEN HandleAck(p.content)
         ELSE /\ last_event' = "ignored"
              /\ UNCHANGED <<send_base, dup_ack_count, last_ack, cwnd, ssthresh,
                             next_seq_num>>
    /\ UNCHANGED <<codecVars, inVars, sent, sessVars, spc, chunks, errVars, rcvVars, s2r, corrupts>>

\* A faulty variant of Timeout: next_seq_num is not rewound to send_base.
TimeoutNoRewind ==
    /\ AtRecv
    /\ ssthresh' = ReducedSsthresh
    /\ cwnd' = Whole(INITIAL_CWND)
    /\ dup_ack_count' = 0
    /\ last_event' = "timeout"
    /\ UNCHANGED <<codecVars, inVars, sent, sessVars, spc, chunks, send_base, next_seq_num, last_ack,
                   errVars, rcvVars, s2r, r2s, dups, corrupts>>

\* A faulty variant of Timeout: the duplicate-ACK count survives.
TimeoutKeepsDupCount ==
    /\ AtRecv
    /\ ssthresh' = ReducedSsthresh
    /\ cwnd' = Whole(INITIAL_CWND)
    /\ next_seq_num' = send_base
    /\ last_event' = "timeout"
    /\ UNCHANGED <<codecVars, inVars, sent, sessVars, spc, chunks, send_base, last_ack, errVars,
                   dup_ack_count, rcvVars, s2r, r2s, dups, corrupts>>

\* A faulty variant of Timeout: the window is not reset to INITIAL_CWND.
TimeoutKeepsCwnd ==
    /\ AtRecv
    /\ ssthresh' = ReducedSsthresh
    /\ dup_ack_count' = 0
    /\ next_seq_num' = send_base
    /\ last_event' = "timeout"
    /\ UNCHANGED <<codecVars, inVars, sent, sessVars, spc, chunks, send_base, last_ack, errVars,
                   cwnd, rcvVars, s2r, r2s, dups, corrupts>>

\* recvfrom raises socket.timeout in the sender's loop.
Timeout ==
    /\ AtRecv
    /\ ssthresh' = ReducedSsthresh
    /\ cwnd' = Whole(INITIAL_CWND)
    /\ dup_ack_count' = 0
    /\ next_seq_num' = send_base
    /\ last_event' = "timeout"
    /\ UNCHANGED <<codecVars, inVars, sent, sessVars, spc, chunks, send_base, last_ack, errVars,
                   rcvVars, s2r, r2s, dups, corrupts>>

\* A faulty variant of SendEOF: the loop ends once every chunk has been sent,
\* acknowledged or not.
SendEOFUnacked ==
    /\ spc = "loop"
    /\ ~(next_seq_num < total_chunks)
    /\ s2r' = s2r \cup {create_eof_packet}
    /\ spc' = "done"
    /\ last_event' = "eof"
    /\ sent' = Captured(sent, create_eof_packet)
    /\ UNCHANGED <<codecVars, inVars, sessVars, chunks, send_base, next_seq_num, cwnd, ssthresh,
                   dup_ack_count, last_ack, errVars, rcvVars, r2s, dups,
                   corrupts>>

\* The loop has ended: EOF, and send_file returns True.
SendEOF ==
    /\ spc = "loop"
    /\ ~(send_base < total_chunks)
    /\ s2r' = s2r \cup {create_eof_packet}
    /\ spc' = "done"
    /\ last_event' = "eof"
    /\ sent' = Captured(sent, create_eof_packet)
    /\ UNCHANGED <<codecVars, inVars, sessVars, chunks, send_base, next_seq_num, cwnd, ssthresh,
                   dup_ack_count, last_ack, errVars, rcvVars, r2s, dups,
                   corrupts>>

(***************************************************************************)
(* Receiver.                                                               *)
(***************************************************************************)
\* "if seq_num not in self.recv_window: self.recv_window[seq_num] = chunk"
StoreInWindow(win, seq_num, chunk) ==
    IF seq_num \in DOMAIN win THEN win
    ELSE [k \in DOMAIN win \cup {seq_num} |-> IF k = seq_num THEN chunk ELSE win[k]]

\* "del self.recv_window[expected_seq]"
DelFromWindow(win, seq_num) == [k \in DOMAIN win \ {seq_num} |-> win[k]]

\* One pass of the in-order delivery loop, from the state st = [exp, win, recd].
DeliverOne(st) ==
    [exp |-> st.exp + 1,
     win |-> DelFromWindow(st.win, st.exp),
     recd |-> Append(st.recd, <<st.exp, st.win[st.exp]>>)]

\* The in-order delivery loop.  (The set binds the state of each pass to its
\* value, which is then computed once.)
RECURSIVE DeliverInOrder(_)
DeliverInOrder(st) ==
    IF st.exp \in DOMAIN st.win
    THEN CHOOSE r \in {DeliverInOrder(nxt) : nxt \in {DeliverOne(st)}} : TRUE
    ELSE st

\* The ACK number of the corrupted branch.
CorruptedAckNum == IF expected_seq > 0 THEN expected_seq - 1 ELSE -1
\* A faulty variant of DeliveredAckNum: the next sequence expected.
DeliveredAckNumNext(exp) == exp
\* The ACK number after the delivery loop has left expected_seq at exp.
DeliveredAckNum(exp) == exp - 1

\* received_chunks.sort(key=lambda x: x[0]): a stable insertion sort.
RECURSIVE InsertBySeq(_, _)
InsertBySeq(sorted, e) ==
    IF sorted = <<>> THEN <<e>>
    ELSE IF sorted[Len(sorted)][1] <= e[1] THEN Append(sorted, e)
    ELSE Append(InsertBySeq(SubSeq(sorted, 1, Len(sorted) - 1), e), sorted[Len(sorted)])
RECURSIVE SortBySeq(_)
SortBySeq(l) ==
    IF l = <<>> THEN <<>>
    ELSE CHOOSE r \in {InsertBySeq(s, l[Len(l)]) :
                         s \in {SortBySeq(SubSeq(l, 1, Len(l) - 1))}} : TRUE

\* The bytes the write loop puts in the output file.
WriteAll(l) == Concat([i \in 1..Len(l) |-> l[i][2]])

\* receive_file up to its loop: the first datagram must be METADATA.
RecvFirst(pkt, keep) ==
    /\ rpc = "meta"
    /\ pkt \in s2r
    /\ MayKeep(keep)
    /\ s2r' = Taken(s2r, pkt, keep)
    /\ dups' = DupCount(keep)
    /\ IF peer_addr[Receiver] # Sender \/ parse_packet(pkt).type # PKT_METADATA
       THEN /\ rpc' = "failed"
            /\ UNCHANGED <<expected_seq, recv_window, received_chunks>>
       ELSE /\ rpc' = "loop"
            /\ recv_window' = EmptyWindow
            /\ expected_seq' = 0
            /\ received_chunks' = <<>>
    /\ UNCHANGED <<codecVars, inVars, sent, sessVars, sndVars, written, last_ack_sent, r2s, corrupts>>

\* sendto of an ACK in the receiver's loop: struct.pack raises struct.error
\* for a number it cannot pack, and the exception leaves receive_file.
SendAck(ack_num, lost) ==
    /\ last_ack_sent' = ack_num
    /\ IF CanPack(ack_num)
       THEN /\ r2s' = Sent(r2s, create_ack_packet(ack_num), lost)
            /\ sent' = Captured(sent, create_ack_packet(ack_num))
            /\ rpc' = "loop"
       ELSE /\ r2s' = r2s
            /\ sent' = sent
            /\ rpc' = "error"

\* One pass of the receiver's loop: recvfrom returns a datagram.
RecvLoop(pkt, keep, lost) ==
    /\ rpc = "loop"
    /\ pkt \in s2r
    /\ MayKeep(keep)
    /\ s2r' = Taken(s2r, pkt, keep)
    /\ dups' = DupCount(keep)
    /\ \E p \in {parse_packet(pkt)} :
         IF p.type = PKT_EOF THEN
            \* break; sort; write; return True
            /\ ~lost
            /\ rpc' = "done"
            /\ written' = WriteAll(SortBySeq(received_chunks))
            /\ UNCHANGED <<expected_seq, recv_window, received_chunks,
                           last_ack_sent, r2s, sent>>
         ELSE IF p.type = PKT_DATA THEN
            IF p.content = None THEN
               /\ SendAck(CorruptedAckNum, lost)
               /\ UNCHANGED <<expected_seq, recv_window, received_chunks, written>>
            ELSE
               \E st \in {DeliverInOrder(
                             [exp |-> expected_seq,
                              win |-> StoreInWindow(recv_window, p.content[1], p.content[2]),
                              recd |-> received_chunks])} :
                  /\ expected_seq' = st.exp
                  /\ recv_window' = st.win
                  /\ received_chunks' = st.recd
                  /\ SendAck(DeliveredAckNum(st.exp), lost)
                  /\ UNCHANGED written
         ELSE
            /\ ~lost
            /\ UNCHANGED <<rcvVars, r2s, sent>>
    /\ UNCHANGED <<codecVars, inVars, sessVars, sndVars, corrupts>>

(***************************************************************************)
(* The transfer of send_file to receive_file over a network that loses,    *)
(* reorders and duplicates datagrams.                                      *)
(***************************************************************************)
Next ==
    \/ SendFile
    \/ \E lost \in BOOLEAN : SendData(lost)
    \/ \E pkt \in r2s, keep \in BOOLEAN : RecvAck(pkt, keep)
    \/ Timeout
    \/ SendEOF
    \/ \E pkt \in s2r, keep \in BOOLEAN : RecvFirst(pkt, keep)
    \/ \E pkt \in s2r, keep \in BOOLEAN, lost \in BOOLEAN : RecvLoop(pkt, keep, lost)

Spec == Init /\ [][Next]_vars

(***************************************************************************)
(* The connection manager: bind, connect, accept, disconnect and           *)
(* handle_disconnect, and the refusals of send_file and receive_file.  A   *)
(* socket makes one call at a time; the sender's socket is free when       *)
(* send_file is not running, the receiver's when receive_file is not.      *)
(***************************************************************************)
SenderFree == spc \in {"idle", "done"} /\ call[Sender] = "none"
ReceiverFree == rpc \in {"idle", "done", "failed"} /\ call[Receiver] = "none"

\* The flags after a socket connected to a peer, and after it disconnected.
Connects(s) ==
    /\ connected' = [connected EXCEPT ![s] = TRUE]
    /\ peer_addr' = [peer_addr EXCEPT ![s] = PeerOf(s)]
\* A faulty variant of Disconnects: connected stays set.
DisconnectsPeerOnly(s) ==
    /\ connected' = connected
    /\ peer_addr' = [peer_addr EXCEPT ![s] = NoAddr]
Disconnects(s) ==
    /\ connected' = [connected EXCEPT ![s] = FALSE]
    /\ peer_addr' = [peer_addr EXCEPT ![s] = NoAddr]
Returns(s, name, value) == returned' = [returned EXCEPT ![s] = <<name, value>>]

\* bind on the receiver's socket.
Bind ==
    /\ ReceiverFree
    /\ ~bound[Receiver]
    /\ bound' = [bound EXCEPT ![Receiver] = TRUE]
    /\ Returns(Receiver, "bind", "None")
    /\ UNCHANGED <<codecVars, inVars, sent, sndVars, rcvVars, s2r, r2s, dups, corrupts,
                   connected, peer_addr, call>>

\* connect up to its recvfrom: the SYN.
ConnectSend ==
    /\ SenderFree
    /\ s2r' = s2r \cup {syn_packet}
    /\ call' = [call EXCEPT ![Sender] = "connect"]
    /\ UNCHANGED <<codecVars, inVars, sent, sndVars, rcvVars, r2s, dups, corrupts,
                   bound, connected, peer_addr, returned>>

\* connect from its recvfrom: whatever datagram comes first decides.
ConnectRecv(pkt, keep) ==
    /\ call[Sender] = "connect"
    /\ pkt \in r2s
    /\ MayKeep(keep)
    /\ r2s' = Taken(r2s, pkt, keep)
    /\ dups' = DupCount(keep)
    /\ call' = [call EXCEPT ![Sender] = "none"]
    /\ IF unpack_type(pkt) = PKT_SYN_ACK
       THEN /\ Connects(Sender)
            /\ Returns(Sender, "connect", "True")
       ELSE /\ UNCHANGED <<connected, peer_addr>>
            /\ Returns(Sender, "connect", "False")
    /\ UNCHANGED <<codecVars, inVars, sent, sndVars, rcvVars, s2r, corrupts, bound>>

\* accept on a socket that is not bound.
AcceptUnbound ==
    /\ ReceiverFree
    /\ ~bound[Receiver]
    /\ Returns(Receiver, "accept", "False")
    /\ UNCHANGED <<codecVars, inVars, sent, sndVars, rcvVars, s2r, r2s, dups, corrupts,
                   bound, connected, peer_addr, call>>

\* accept on a bound socket: whatever datagram comes first decides.
Accept(pkt, keep) ==
    /\ ReceiverFree
    /\ bound[Receiver]
    /\ pkt \in s2r
    /\ MayKeep(keep)
    /\ s2r' = Taken(s2r, pkt, keep)
    /\ dups' = DupCount(keep)
    /\ IF unpack_type(pkt) = PKT_SYN
       THEN /\ r2s' = r2s \cup {syn_ack_packet}
            /\ Connects(Receiver)
            /\ Returns(Receiver, "accept", "True")
       ELSE /\ UNCHANGED <<r2s, connected, peer_addr>>
            /\ Returns(Receiver, "accept", "False")
    /\ UNCHANGED <<codecVars, inVars, sent, sndVars, rcvVars, corrupts, bound, call>>

\* A faulty variant of SendFileRefused: the METADATA packet leaves before
\* the checks are made.
SendFileRefusedAfterMetadata ==
    /\ spc = "idle"
    /\ call[Sender] = "none"
    /\ ~IsConnected(Sender) \/ ~file_exists
    /\ s2r' = s2r \cup {create_metadata_packet(FileName, Len(file))}
    /\ Returns(Sender, "send_file", "False")
    /\ UNCHANGED <<codecVars, inVars, sent, sndVars, rcvVars, r2s, dups, corrupts,
                   bound, connected, peer_addr, call>>

\* send_file while not connected, or on a file that does not exist.
SendFileRefused ==
    /\ spc = "idle"
    /\ call[Sender] = "none"
    /\ ~IsConnected(Sender) \/ ~file_exists
    /\ Returns(Sender, "send_file", "False")
    /\ UNCHANGED <<codecVars, inVars, sent, sndVars, rcvVars, s2r, r2s, dups, corrupts,
                   bound, connected, peer_addr, call>>

\* receive_file up to its first recvfrom.
ReceiveFile ==
    /\ rpc = "idle"
    /\ IF IsConnected(Receiver)
       THEN /\ rpc' = "meta"
            /\ UNCHANGED returned
       ELSE /\ rpc' = rpc
            /\ Returns(Receiver, "receive_file", "False")
    /\ UNCHANGED <<codecVars, inVars, sent, sndVars, expected_seq, recv_window, received_chunks,
                   written, last_ack_sent, s2r, r2s, dups, corrupts,
                   bound, connected, peer_addr, call>>

\* A host that is not the peer.
Stranger == "X"
\* What a stranger may send to the receiver's socket.
StrangerPackets == {create_metadata_packet(FileName, 0), fin_packet}

\* The first datagram of receive_file comes from a stranger.
RecvFirstStranger(pkt) ==
    /\ rpc = "meta"
    /\ pkt \in StrangerPackets
    /\ peer_addr[Receiver] # Stranger
    /\ rpc' = "failed"
    /\ Returns(Receiver, "receive_file", "False")
    /\ UNCHANGED <<codecVars, inVars, sent, sndVars, expected_seq, recv_window, received_chunks,
                   written, last_ack_sent, s2r, r2s, dups, corrupts,
                   bound, connected, peer_addr, call>>

\* disconnect up to its recvfrom: the FIN, if the socket is connected.
DisconnectSend ==
    /\ SenderFree
    /\ IF IsConnected(Sender)
       THEN /\ s2r' = s2r \cup {fin_packet}
            /\ call' = [call EXCEPT ![Sender] = "disconnect"]
            /\ UNCHANGED returned
       ELSE /\ Returns(Sender, "disconnect", "None")
            /\ UNCHANGED <<s2r, call>>
    /\ UNCHANGED <<codecVars, inVars, sent, sndVars, rcvVars, r2s, dups, corrupts,
                   bound, connected, peer_addr>>

\* disconnect from its recvfrom: one datagram, a FIN-ACK or not.
DisconnectRecv(pkt, keep) ==
    /\ call[Sender] = "disconnect"
    /\ pkt \in r2s
    /\ MayKeep(keep)
    /\ r2s' = Taken(r2s, pkt, keep)
    /\ dups' = DupCount(keep)
    /\ call' = [call EXCEPT ![Sender] = "none"]
    /\ IF peer_addr[Sender] = Receiver /\ unpack_type(pkt) = PKT_FIN_ACK
       THEN Disconnects(Sender)
       ELSE UNCHANGED <<connected, peer_addr>>
    /\ Returns(Sender, "disconnect", "None")
    /\ UNCHANGED <<codecVars, inVars, sent, sndVars, rcvVars, s2r, corrupts, bound>>

\* handle_disconnect on a socket that is not connected.
HandleDisconnectRefused ==
    /\ ReceiverFree
    /\ ~IsConnected(Receiver)
    /\ Returns(Receiver, "handle_disconnect", "None")
    /\ UNCHANGED <<codecVars, inVars, sent, sndVars, rcvVars, s2r, r2s, dups, corrupts,
                   bound, connected, peer_addr, call>>

\* handle_disconnect on a connected socket: one datagram, a FIN or not.
HandleDisconnect(pkt, keep) ==
    /\ ReceiverFree
    /\ IsConnected(Receiver)
    /\ pkt \in s2r
    /\ MayKeep(keep)
    /\ s2r' = Taken(s2r, pkt, keep)
    /\ dups' = DupCount(keep)
    /\ IF peer_addr[Receiver] = Sender /\ unpack_type(pkt) = PKT_FIN
       THEN /\ r2s' = r2s \cup {fin_ack_packet}
            /\ Disconnects(Receiver)
       ELSE UNCHANGED <<r2s, connected, peer_addr>>
    /\ Returns(Receiver, "handle_disconnect", "None")
    /\ UNCHANGED <<codecVars, inVars, sent, sndVars, rcvVars, corrupts, bound, call>>

(***************************************************************************)
(* The session of sender.py and receiver.py (and of test.py): after the    *)
(* transfer the sender calls disconnect, the receiver handle_disconnect.   *)
(* FIN and FIN-ACK are never lost.                                         *)
(***************************************************************************)
TeardownFile == FileOfLen(ChunkSize + ShortTail)
InitTeardown == InitState(TeardownFile, {}, {}, MaxDup)

NextTeardown ==
    \/ Next
    \/ spc = "done" /\ returned[Sender][1] # "disconnect" /\ DisconnectSend
    \/ \E pkt \in r2s, keep \in BOOLEAN : DisconnectRecv(pkt, keep)
    \/ /\ rpc \in {"done", "failed"}
       /\ returned[Receiver][1] # "handle_disconnect"
       /\ \E pkt \in s2r, keep \in BOOLEAN : HandleDisconnect(pkt, keep)

SpecTeardown == InitTeardown /\ [][NextTeardown]_vars

(***************************************************************************)
(* Sessions in which the two sockets, newly constructed, make their calls  *)
(* in any order: the file may not exist, calls may come before the socket  *)
(* is bound or connected, and a stranger may send the first datagram of    *)
(* receive_file.  Each socket transfers at most one file.                  *)
(***************************************************************************)
SessionFile == FileOfLen(ShortTail)

InitSession ==
    /\ \E e \in BOOLEAN :
          /\ file_exists = e
          /\ InitTransfer(IF e THEN SessionFile ELSE <<>>, {}, {}, MaxDup)
    /\ rpc = "idle"
    /\ capture = FALSE
    /\ bound = [s \in Sockets |-> FALSE]
    /\ connected = [s \in Sockets |-> FALSE]
    /\ peer_addr = [s \in Sockets |-> NoAddr]
    /\ call = [s \in Sockets |-> "none"]
    /\ returned = [s \in Sockets |-> <<"__init__", "None">>]
    /\ cpc = "none"
    /\ variant = NoVariant
    /\ wire = <<>>
    /\ parsed = NoParse

NextSession ==
    \/ Next
    \/ Bind
    \/ ConnectSend
    \/ \E pkt \in r2s, keep \in BOOLEAN : ConnectRecv(pkt, keep)
    \/ AcceptUnbound
    \/ \E pkt \in s2r, keep \in BOOLEAN : Accept(pkt, keep)
    \/ SendFileRefused
    \/ ReceiveFile
    \/ \E pkt \in StrangerPackets : RecvFirstStranger(pkt)
    \/ DisconnectSend
    \/ \E pkt \in r2s, keep \in BOOLEAN : DisconnectRecv(pkt, keep)
    \/ HandleDisconnectRefused
    \/ \E pkt \in s2r, keep \in BOOLEAN : HandleDisconnect(pkt, keep)

SpecSession == InitSession /\ [][NextSession]_vars

(***************************************************************************)
(* The transfer when an ACK reaches the sender with the number 0xFFFFFFFF: *)
(* ACK packets carry no checksum, so an ACK whose number was altered in    *)
(* transit, or the ACK of a peer that announces "nothing delivered yet"    *)
(* that way, is parsed like any other.                                     *)
(***************************************************************************)
sentinel_ack_packet == <<PKT_ACK, 255, 255, 255, 255>>

AlterAck(pkt) ==
    /\ corrupts < MaxCorrupt
    /\ pkt \in r2s
    /\ pkt[1] = PKT_ACK
    /\ r2s' = (r2s \ {pkt}) \cup {sentinel_ack_packet}
    /\ corrupts' = corrupts + 1
    /\ UNCHANGED <<codecVars, inVars, sent, sessVars, sndVars, rcvVars, s2r, dups>>

NextSentinel == Next \/ \E pkt \in r2s : AlterAck(pkt)

InitSentinel == InitState(MidFile, {}, {}, MaxDup)

SpecSentinel == InitSentinel /\ [][NextSentinel]_vars

(***************************************************************************)
(* The transfer over a network that delivers every datagram once and in    *)
(* order, with the sendto calls recorded.  Without retransmission the      *)
(* datagrams of one direction are sent in the order METADATA, DATA or ACK  *)
(* by number, EOF, and recvfrom returns the first of those in flight.  A   *)
(* timeout may fire while no ACK is in flight.                             *)
(***************************************************************************)
Rank(pkt) ==
    IF pkt[1] = PKT_METADATA THEN -1
    ELSE IF pkt[1] \in {PKT_DATA, PKT_ACK} THEN UnpackBE(Slice(pkt, 1, 5))
    ELSE Huge
Oldest(net) == {pkt \in net : \A q \in net : Rank(pkt) <= Rank(q)}

TimeoutAllowed == r2s = {} /\ Len(sent) < MaxSent

NextLossless ==
    \/ SendFile
    \/ SendData(FALSE)
    \/ \E pkt \in Oldest(r2s) : RecvAck(pkt, FALSE)
    \/ TimeoutAllowed /\ Timeout
    \/ SendEOF
    \/ \E pkt \in Oldest(s2r) : RecvFirst(pkt, FALSE)
    \/ \E pkt \in Oldest(s2r) : RecvLoop(pkt, FALSE, FALSE)

InitLossless ==
    /\ \E f \in Files : InitSockets(f, {}, {}, MaxDup)
    /\ capture = TRUE
    /\ cpc = "none"
    /\ variant = NoVariant
    /\ wire = <<>>
    /\ parsed = NoParse

SpecLossless == InitLossless /\ [][NextLossless]_vars

(***************************************************************************)
(* The packet codec on its own: a packet of one of the eight types is      *)
(* encoded as the program encodes it, the bytes of a DATA packet may lose  *)
(* or gain a trailing byte, and the bytes are given to _parse_packet.      *)
(***************************************************************************)
CodecNames == {<<>>, <<102>>, <<233>>, <<102, 8364>>}
CodecSizes == {0, 1, 256, 65536}
CodecSeqs == {0, 1, 255, 256, 65537}
CodecPayloads == {<<>>, <<0>>, <<7>>, <<1, 0>>, <<255, 255>>, <<1, 2, 3>>}
CodecAcks == {0, 1, 255, 256, 16777216}
ControlTypes == {PKT_SYN, PKT_SYN_ACK, PKT_FIN, PKT_FIN_ACK}
Variants ==
    [type : ControlTypes \cup {PKT_EOF}, fields : {None}]
        \cup [type : {PKT_METADATA}, fields : CodecNames \X CodecSizes]
        \cup [type : {PKT_DATA}, fields : CodecSeqs \X CodecPayloads]
        \cup [type : {PKT_ACK}, fields : CodecAcks]

\* The bytes the program sends for a packet.
EncodeVariant(P) ==
    IF P.type = PKT_SYN THEN syn_packet
    ELSE IF P.type = PKT_SYN_ACK THEN syn_ack_packet
    ELSE IF P.type = PKT_FIN THEN fin_packet
    ELSE IF P.type = PKT_FIN_ACK THEN fin_ack_packet
    ELSE IF P.type = PKT_METADATA THEN
        create_metadata_packet(P.fields[1], P.fields[2])
    ELSE IF P.type = PKT_DATA THEN create_data_packet(P.fields[1], P.fields[2])
    ELSE IF P.type = PKT_ACK THEN create_ack_packet(P.fields)
    ELSE create_eof_packet

\* A datagram with its last payload byte missing, or with one byte more.
Resized(w) ==
    {w \o <<b>> : b \in {0, 1}}
        \cup (IF Len(w) > 11 THEN {SubSeq(w, 1, Len(w) - 1)} ELSE {})

Encode ==
    /\ cpc = "chosen"
    /\ wire' = EncodeVariant(variant)
    /\ cpc' = "encoded"
    /\ UNCHANGED <<inVars, sent, sndVars, rcvVars, s2r, r2s, dups, corrupts, sessVars,
                   variant, parsed>>

Resize ==
    /\ cpc = "encoded"
    /\ variant.type = PKT_DATA
    /\ wire = EncodeVariant(variant)
    /\ wire' \in Resized(wire)
    /\ UNCHANGED <<inVars, sent, sndVars, rcvVars, s2r, r2s, dups, corrupts, sessVars,
                   cpc, variant, parsed>>

Decode ==
    /\ cpc = "encoded"
    /\ parsed' = parse_packet(wire)
    /\ cpc' = "decoded"
    /\ UNCHANGED <<inVars, sent, sndVars, rcvVars, s2r, r2s, dups, corrupts, sessVars,
                   variant, wire>>

InitCodec ==
    /\ InitSockets(<<>>, {}, {}, 0)
    /\ capture = FALSE
    /\ cpc = "chosen"
    /\ variant \in Variants
    /\ wire = <<>>
    /\ parsed = NoParse

NextCodec == Encode \/ Resize \/ Decode

SpecCodec == InitCodec /\ [][NextCodec]_vars

(***************************************************************************)
(* The fault-injecting sender, send_file_with_errors.  Its ACK and timeout *)
(* handling and its EOF are those of send_file (RecvAck, Timeout,          *)
(* SendEOF).  Its counters packets_sent and retransmissions are printed    *)
(* only and grow without bound; the model leaves them out.                 *)
(***************************************************************************)
SendFileWithErrors ==
    /\ spc = "idle"
    /\ call[Sender] = "none"
    /\ IsConnected(Sender)
    /\ file_exists
    /\ s2r' = s2r \cup {create_metadata_packet(FileName, Len(file))}
    /\ send_base' = 0
    /\ next_seq_num' = 0
    /\ cwnd' = Whole(INITIAL_CWND)
    /\ ssthresh' = SSTHRESH_INIT
    /\ dup_ack_count' = 0
    /\ last_ack' = -1
    /\ chunks' = ReadChunks(file)
    /\ packets_dropped' = 0
    /\ packets_corrupted' = 0
    /\ already_errored' = {}
    /\ spc' = "loop"
    /\ last_event' = "start"
    /\ sent' = Captured(sent, create_metadata_packet(FileName, Len(file)))
    /\ UNCHANGED <<codecVars, inVars, sessVars, rcvVars, r2s, dups, corrupts>>

\* "if len(corrupted_chunk) > 10: corrupted_chunk[10] ^= 0xFF"
CorruptChunk(chunk) ==
    IF Len(chunk) > CorruptIndex
    THEN [chunk EXCEPT ![CorruptIndex + 1] = Xor(chunk[CorruptIndex + 1], 255)]
    ELSE chunk

\* The DATA packet of the corrupt branch.
CorruptedDataPacket(seq, chunk) == create_data_packet(seq, CorruptChunk(chunk))

\* A faulty variant of Errored: the sequence is not recorded.
ErroredForgets(errored, seq) == errored

\* "already_errored.add(seq)"
Errored(errored, seq) == errored \cup {seq}

\* One pass of the window loop of send_file_with_errors.
SendDataWithErrors(lost) ==
    /\ AtWindowLoop
    /\ LET seq == next_seq_num IN
         IF seq \in drop_packets /\ seq \notin already_errored THEN
            /\ ~lost
            /\ packets_dropped' = packets_dropped + 1
            /\ already_errored' = Errored(already_errored, seq)
            /\ last_event' = "dropped"
            /\ UNCHANGED <<s2r, packets_corrupted, sent>>
         ELSE IF seq \in corrupt_packets /\ seq \notin already_errored THEN
            /\ s2r' = Sent(s2r, CorruptedDataPacket(seq, chunks[seq + 1]), lost)
            /\ sent' = Captured(sent, CorruptedDataPacket(seq, chunks[seq + 1]))
            /\ packets_corrupted' = packets_corrupted + 1
            /\ already_errored' = Errored(already_errored, seq)
            /\ last_event' = "corrupted"
            /\ UNCHANGED packets_dropped
         ELSE
            /\ s2r' = Sent(s2r, create_data_packet(seq, chunks[seq + 1]), lost)
            /\ sent' = Captured(sent, create_data_packet(seq, chunks[seq + 1]))
            /\ last_event' = "data"
            /\ UNCHANGED errVars
    /\ next_seq_num' = next_seq_num + 1
    /\ UNCHANGED <<codecVars, inVars, sessVars, spc, chunks, send_base, cwnd, ssthresh, dup_ack_count,
                   last_ack, rcvVars, r2s, dups, corrupts>>

\* Faults are injected over a network that delivers every datagram once, in
\* any order; timeouts may fire at any recvfrom.
NextErr ==
    \/ SendFileWithErrors
    \/ SendDataWithErrors(FALSE)
    \/ \E pkt \in r2s : RecvAck(pkt, FALSE)
    \/ Timeout
    \/ SendEOF
    \/ \E pkt \in s2r : RecvFirst(pkt, FALSE)
    \/ \E pkt \in s2r : RecvLoop(pkt, FALSE, FALSE)

\* send_file_with_errors on the three-chunk file, with any drop and corrupt lists.
InitErr ==
    \E drop \in SUBSET MidSeqs, corrupt \in SUBSET MidSeqs :
        InitState(MidFile, drop, corrupt, 0)

SpecErrors == InitErr /\ [][NextErr]_vars

(***************************************************************************)
(* A network that also alters DATA datagrams in flight: one byte of the    *)
(* sequence number, the length, the checksum or the payload is replaced.   *)
(***************************************************************************)
\* 0-based offsets in a DATA datagram: the low-order bytes of seq_num,
\* data_len and checksum, and the first payload byte.
AlteredOffsets == {4, 6, 10, 11}
\* What is added (mod 256) to the byte.
AlterDeltas == {1, 255}

Altered(pkt, off, delta) == [pkt EXCEPT ![off + 1] = (pkt[off + 1] + delta) % 256]

AlterData(pkt, off, delta) ==
    /\ corrupts < MaxCorrupt
    /\ pkt \in s2r
    /\ pkt[1] = PKT_DATA
    /\ off < Len(pkt)
    /\ s2r' = (s2r \ {pkt}) \cup {Altered(pkt, off, delta)}
    /\ corrupts' = corrupts + 1
    /\ UNCHANGED <<codecVars, inVars, sent, sessVars, sndVars, rcvVars, r2s, dups>>

NextCorrupt ==
    \/ Next
    \/ \E pkt \in s2r, off \in AlteredOffsets, delta \in AlterDeltas :
          AlterData(pkt, off, delta)

\* The three-chunk file, over a network that alters but does not duplicate.
InitCorrupt == InitState(MidFile, {}, {}, MaxDup)

SpecCorrupt == InitCorrupt /\ [][NextCorrupt]_vars

(***************************************************************************)
(* Fairness.  The endpoints keep running: a blocked recvfrom of the sender *)
(* times out after 100 ms, and a loop that can send does send.  The        *)
(* network is fair: a datagram that is sent again and again is not lost    *)
(* every time, and a datagram in flight is delivered while its receiver    *)
(* keeps calling recvfrom.  Each condition below follows from that for     *)
(* every single datagram; the conditions name only the datagrams the       *)
(* transfer is waiting for.                                                *)
(***************************************************************************)
\* The DATA packet about to be sent is one the transfer waits for: the
\* receiver awaits it, or the receiver is ahead of the sender and will
\* answer it with an ACK the sender has not seen.
AwaitedData == next_seq_num = expected_seq \/ expected_seq > send_base

\* send_file puts an awaited DATA packet in flight.
SendAwaited == AwaitedData /\ SendData(FALSE)
\* The receiver gets the DATA packet it awaits: one that carries the
\* sequence number expected_seq and moves expected_seq on.
RecvAwaited ==
    \E pkt \in s2r, keep \in BOOLEAN, lost \in BOOLEAN :
        /\ pkt[1] = PKT_DATA
        /\ UnpackBE(Slice(pkt, 1, 5)) = expected_seq
        /\ RecvLoop(pkt, keep, lost)
        /\ expected_seq' > expected_seq
\* The receiver gets a DATA packet and its ACK is put in flight.
RecvAcked ==
    \E pkt \in s2r, keep \in BOOLEAN :
        pkt[1] = PKT_DATA /\ RecvLoop(pkt, keep, FALSE)
\* The sender gets an ACK that is new to it.
RecvNewAck ==
    \E pkt \in r2s, keep \in BOOLEAN :
        RecvAck(pkt, keep) /\ send_base' > send_base
\* The receiver gets EOF.
RecvEOF == RecvLoop(create_eof_packet, FALSE, FALSE)

NetFairness ==
    /\ WF_vars(RecvAwaited \/ RecvEOF)
    /\ SF_vars(RecvAcked)
    /\ SF_vars(RecvNewAck)

\* The sender runs: its loop sends, its recvfrom times out, it ends with EOF.
SenderRuns == (\E lost \in BOOLEAN : SendData(lost)) \/ Timeout \/ SendEOF
SenderWithErrorsRuns == SendDataWithErrors(FALSE) \/ Timeout \/ SendEOF

SenderFairness ==
    /\ SF_vars(SendAwaited)
    /\ WF_vars(SenderRuns)

SenderWithErrorsFairness == WF_vars(SenderWithErrorsRuns)

\* send_file to receive_file over a fair network that loses, reorders and
\* duplicates datagrams.
InitLive == \E f \in Files \ {LargestFile} : InitState(f, {}, {}, 0)

SpecLive == InitLive /\ [][Next]_vars /\ SenderFairness /\ NetFairness

\* send_file_with_errors with a drop list only.
InitDrop == \E drop \in SUBSET MidSeqs : InitState(MidFile, drop, {}, 0)

SpecDrop == InitDrop /\ [][NextErr]_vars /\ SenderWithErrorsFairness /\ NetFairness

(***************************************************************************)
(* Properties.                                                             *)
(***************************************************************************)
\* The delivered list that holds the sender's chunks 0..N-1, each once and
\* in order.
ChunksInOrder == [i \in 1..Len(chunks) |-> <<i - 1, chunks[i]>>]

\* C1: whenever send_file and receive_file have both returned success, the
\* receiver's delivered list is exactly the sender's chunks 0..N-1, each once
\* and in order, and the bytes written equal the bytes of the input file.
Fidelity ==
    (spc = "done" /\ rpc = "done") =>
        /\ received_chunks = ChunksInOrder
        /\ written = file
        /\ Len(written) = Len(file)

\* Both ends have returned after a transfer of several chunks in which the
\* network duplicated datagrams and a retransmitted chunk reached the
\* receiver a second time.
FidelityWitness ==
    /\ spc = "done" /\ rpc = "done"
    /\ Len(chunks) >= 2
    /\ dups > 0
    /\ DOMAIN recv_window # {}
    /\ written = file

\* C2: once receive_file has METADATA, over a fair network that loses,
\* reorders and duplicates DATA and ACK datagrams, send_file eventually has
\* send_base = total_chunks, has sent EOF and returned success, and
\* receive_file eventually returns success.
Completes ==
    (rpc = "loop") ~> (spc = "done" /\ send_base = total_chunks /\ rpc = "done")

\* Every datagram in flight was lost, and the receive timeout has rewound
\* the sender in the middle of the transfer.
CompletesWitness ==
    /\ rpc = "loop" /\ spc = "loop"
    /\ last_event = "timeout"
    /\ s2r = {} /\ r2s = {}
    /\ 0 < send_base /\ send_base < total_chunks
    /\ next_seq_num = send_base

\* Every payload of the delivered list is the sender's chunk at its sequence
\* position.
DeliveredAreSent ==
    \A i \in 1..Len(received_chunks) :
        /\ received_chunks[i][1] < Len(chunks)
        /\ received_chunks[i][2] = chunks[received_chunks[i][1] + 1]

\* C3: when bytes of DATA datagrams are altered in transit, the receiver
\* never appends to its delivered list a payload that differs from the
\* sender's chunk at that sequence position, it answers the altered packet
\* with an ACK (receive_file does not fail on it), and the file written at
\* the end equals the input.
AlteredNeverDelivered ==
    /\ DeliveredAreSent
    /\ rpc # "error"
    /\ (spc = "done" /\ rpc = "done") => written = file

\* C4: when send_file_with_errors corrupts sequences s >= 1 on their first
\* transmission (and drops nothing), the receiver delivers no corrupted
\* payload, and the file it finally writes equals the original.
InjectedCorruptionRecovered ==
    (drop_packets = {} /\ 0 \notin corrupt_packets) =>
        /\ DeliveredAreSent
        /\ (spc = "done" /\ rpc = "done") => written = file

\* C5: send_file_with_errors with a drop list suppresses each listed
\* sequence on its first transmission only (the drops counted are the
\* sequences recorded as perturbed, all of them listed), and the transfer
\* eventually completes with every listed sequence dropped once and the
\* received file equal to the original.
DropsRecovered ==
    /\ [](/\ already_errored \subseteq drop_packets
          /\ packets_dropped = Cardinality(already_errored))
    /\ (rpc = "loop") ~>
          (/\ spc = "done" /\ rpc = "done"
           /\ already_errored = drop_packets
           /\ written = file)

\* A sequence that was dropped on its first transmission has just been
\* transmitted again, clean, after some other sequence was dropped too.
DropsRecoveredWitness ==
    /\ last_event = "data"
    /\ next_seq_num - 1 \in already_errored
    /\ packets_dropped >= 2
    /\ create_data_packet(next_seq_num - 1, chunks[next_seq_num]) \in s2r

SenderOrdered ==
    spc = "loop" =>
        /\ send_base <= next_seq_num
        /\ last_event = "data" => send_base <= next_seq_num - 1

\* C8: no step decreases send_base, and no step decreases expected_seq.
MonotonicProgress ==
    [][send_base' >= send_base /\ expected_seq' >= expected_seq]_vars

\* The sender has just got an ACK older than one it already handled, after
\* both ends advanced past the first two chunks.
MonotonicProgressWitness ==
    /\ last_event = "stale"
    /\ send_base >= 2
    /\ expected_seq >= 2

BufferAhead ==
    rpc = "loop" => \A k \in DOMAIN recv_window : k > expected_seq

\* C11: in every state cwnd >= 1, and ssthresh >= 2 (its initial value is
\* 64, and every reduction, by timeout or by fast retransmit, leaves it at
\* 2 or more).
CongestionBounds ==
    /\ ~LessThan(cwnd, 1)
    /\ ssthresh >= 2

\* A fast retransmit has just reduced ssthresh to its floor of 2, from a
\* window below 4.
CongestionBoundsWitness ==
    /\ last_event = "fast"
    /\ ssthresh = 2
    /\ cwnd = Whole(5)

\* C12: after a transfer, once disconnect has returned on the sender's
\* socket and handle_disconnect on the receiver's (FIN and FIN-ACK are
\* never lost), both sockets have connected = false and peer_addr cleared,
\* whatever datagrams of the transfer were still queued.
TeardownSymmetric ==
    (/\ spc = "done"
     /\ rpc = "done"
     /\ returned[Sender] = <<"disconnect", "None">>
     /\ returned[Receiver] = <<"handle_disconnect", "None">>)
        => \A s \in Sockets : ~connected[s] /\ peer_addr[s] = NoAddr

\* The bytes are the encoding of the packet, and they have been parsed.
RoundTripped == cpc = "decoded" /\ wire = EncodeVariant(variant)

ReturnsFalse(s, name) ==
    returned'[s] # returned[s] /\ returned'[s] = <<name, "False">>
SetupFails ==
    \/ ReturnsFalse(Sender, "send_file")
    \/ ReturnsFalse(Receiver, "receive_file")
    \/ ReturnsFalse(Receiver, "accept") /\ ~bound[Receiver]
    \/ rpc = "meta" /\ rpc' = "failed"
\* No datagram is emitted, and the flags and the transfer state stay.
NoSideEffect ==
    /\ s2r' \subseteq s2r
    /\ r2s' \subseteq r2s
    /\ UNCHANGED <<bound, connected, peer_addr>>
    /\ UNCHANGED <<chunks, send_base, next_seq_num, cwnd, ssthresh,
                   dup_ack_count, last_ack>>
    /\ UNCHANGED <<expected_seq, recv_window, received_chunks, written>>

ConnectedHasPeer ==
    \A s \in Sockets : connected[s] => peer_addr[s] # NoAddr

\* One socket was disconnected, the other is still connected.
ConnectedHasPeerWitness ==
    /\ returned[Receiver] = <<"handle_disconnect", "None">>
    /\ ~connected[Receiver]
    /\ peer_addr[Receiver] = NoAddr
    /\ connected[Sender]
    /\ peer_addr[Sender] = Receiver

\* The ACK the receiver owes for a DATA packet that fails its checksum.
AckOfLastGood(exp) == IF exp = 0 THEN sentinel_ack_packet ELSE create_ack_packet(exp - 1)
\* The receiver's loop takes pkt, a DATA packet that fails its checksum.
TakesCorrupted(pkt) ==
    /\ rpc = "loop"
    /\ s2r' = s2r \ {pkt}
    /\ parse_packet(pkt).type = PKT_DATA
    /\ parse_packet(pkt).content = None

\* C16: when the receiver's loop gets a DATA packet whose checksum fails,
\* it sends the ACK of expected_seq - 1 (the wire value 0xFFFFFFFF when
\* expected_seq = 0), leaves expected_seq, recv_window and the delivered
\* list unchanged and stays in its loop, for every expected_seq, 0 too.
CorruptedDataAcked ==
    [][\A pkt \in s2r :
          TakesCorrupted(pkt) =>
              /\ rpc' = "loop"
              /\ r2s' \in {r2s, r2s \cup {AckOfLastGood(expected_seq)}}
              /\ UNCHANGED <<expected_seq, recv_window, received_chunks>>
      ]_vars

\* The sender's loop takes the ACK with the wire value 0xFFFFFFFF.
TakesSentinel ==
    /\ AtRecv
    /\ sentinel_ack_packet \in r2s
    /\ r2s' = r2s \ {sentinel_ack_packet}

\* C17: the ACK with the wire value 0xFFFFFFFF is no progress: when the
\* sender receives it, send_base and last_ack stay as they are, and the
\* sender does not leave its loop with send_base beyond the chunks it has.
SentinelNoProgress ==
    [][/\ TakesSentinel => UNCHANGED <<send_base, last_ack>>
       /\ spc' = "done" => send_base' <= Len(chunks')
      ]_vars

\* The sender counts one more duplicate ACK, the n-th in a row.
CountsDup(n) == dup_ack_count = n - 1 /\ dup_ack_count' = n
\* The effect of a fast retransmit.
FastRetransmits ==
    /\ ssthresh' = Max(HalfFloor(cwnd), 2)
    /\ cwnd' = Whole(ssthresh' + 3)
    /\ next_seq_num' = send_base
    /\ last_event' = "fast"

\* C18 as stated: fast retransmit fires on the third consecutive duplicate
\* ACK, and, dup_ack_count not being reset, on the fourth again.
FastRetransmitRefires ==
    [][/\ CountsDup(3) => FastRetransmits
       /\ CountsDup(4) => FastRetransmits
      ]_vars

\* C18, amended: fast retransmit fires on the third consecutive duplicate
\* ACK and leaves dup_ack_count at 3; a fourth and later consecutive
\* duplicate ACK only adds to the count, and leaves ssthresh, cwnd and
\* next_seq_num as they are.
FastRetransmitOnce ==
    [][/\ CountsDup(3) => FastRetransmits
       /\ \A n \in 1..(2 * DupAckThreshold) :
             CountsDup(n) /\ n # 3 =>
                 /\ UNCHANGED <<ssthresh, cwnd, next_seq_num, send_base, last_ack>>
                 /\ last_event' = "dup"
      ]_vars

FastRetransmitOnceWitness ==
    /\ dup_ack_count = 4
    /\ last_event = "dup"
    /\ next_seq_num > send_base

\* The sender's recvfrom times out in this step.
TimesOut ==
    /\ AtRecv
    /\ last_event' = "timeout"
    /\ UNCHANGED <<s2r, r2s, dups>>
\* The first transmission after a timeout.
SendsAfterTimeout == last_event = "timeout" /\ last_event' = "data"

DeclaredLen(w) == UnpackBE(Slice(w, 5, 7))
PresentLen(w) == Len(w) - 11

\* C20: the parse of a DATA packet whose declared data_len differs from the
\* number of bytes after its 11-byte header reports corruption (no
\* content), and never a (seq, data) result.
LengthMismatchCorrupt ==
    (/\ cpc = "decoded"
     /\ variant.type = PKT_DATA
     /\ DeclaredLen(wire) # PresentLen(wire))
        => parsed.type = PKT_DATA /\ parsed.content = None

\* What each side gave to sendto, in order.
IsAckPacket(pkt) == pkt[1] = PKT_ACK
IsSenderPacket(pkt) == pkt[1] # PKT_ACK
SenderLog == SelectSeq(sent, IsSenderPacket)
AckLog == SelectSeq(sent, IsAckPacket)
\* One METADATA, each DATA sequence once and in order, one EOF; every ACK once.
ExpectedSenderLog ==
    <<create_metadata_packet(FileName, Len(file))>>
        \o [i \in 1..Len(chunks) |-> create_data_packet(i - 1, chunks[i])]
        \o <<create_eof_packet>>
ExpectedAckLog == [i \in 1..Len(chunks) |-> create_ack_packet(i - 1)]
IsPrefix(a, b) == Len(a) <= Len(b) /\ a = SubSeq(b, 1, Len(a))
TransferDone == spc = "done" /\ rpc = "done"
\* No timeout (and no fast retransmit) has lowered ssthresh so far.
NoRetransmission == ssthresh = SSTHRESH_INIT

\* C21 as stated: over a network that delivers every datagram once and in
\* order, with no timeout while an ACK is in flight, a file of N chunks is
\* sent as one METADATA, DATA 0..N-1 once each, one EOF, and answered by
\* the N ACKs 0..N-1; the file written is the file sent (empty for N = 0).
ExactPacketCount ==
    TransferDone =>
        /\ SenderLog = ExpectedSenderLog
        /\ AckLog = ExpectedAckLog
        /\ written = file

\* C21, amended: the same, with no timeout firing at all during the
\* transfer (neither while an ACK nor while a DATA packet is in flight).
ExactPacketCountNoTimeout ==
    /\ (spc # "idle" /\ NoRetransmission) =>
          /\ IsPrefix(SenderLog, ExpectedSenderLog)
          /\ IsPrefix(AckLog, ExpectedAckLog)
    /\ (TransferDone /\ NoRetransmission) =>
          /\ SenderLog = ExpectedSenderLog
          /\ AckLog = ExpectedAckLog
          /\ written = file

ExactPacketCountWitness ==
    /\ TransferDone
    /\ NoRetransmission
    /\ file = LargestFile
    /\ Len(SenderLog) = Len(chunks) + 2
    /\ Len(AckLog) = Len(chunks)

\* The window after the step is a whole number no larger than before it.
CwndNotLarger == cwnd'[2] = 1 /\ ~LessThan(cwnd, cwnd'[1])

\* C22 as stated: every loss signal the sender handles, a receive timeout
\* or the third duplicate ACK, leaves cwnd no larger than it was.
LossSignalsShrink ==
    [][(TimesOut \/ CountsDup(3)) => CwndNotLarger]_vars

\* C22, amended: a timeout leaves cwnd at 1, no larger than before; the
\* third duplicate ACK leaves cwnd at max(floor(cwnd/2), 2) + 3, which is
\* larger than before whenever cwnd was below 5.
LossSignalsWindow ==
    [][/\ TimesOut => cwnd' = Whole(1) /\ CwndNotLarger
       /\ CountsDup(3) =>
            /\ cwnd' = Whole(Max(HalfFloor(cwnd), 2) + 3)
            /\ LessThan(cwnd, 5) => ~CwndNotLarger
      ]_vars

\* A fast retransmit has just set the window to 5 with two chunks
\* acknowledged; the window before it was below 5.
LossSignalsWindowWitness ==
    /\ last_event = "fast"
    /\ dup_ack_count = 3
    /\ cwnd = Whole(5)
    /\ send_base >= 2
    /\ next_seq_num = send_base

\* The sequence numbers in the receiver's delivered list.
DeliveredSeqs == {received_chunks[i][1] : i \in 1..Len(received_chunks)}

AllDelivered ==
    /\ expected_seq = total_chunks
    /\ DeliveredSeqs = 0..(total_chunks - 1)
    /\ Len(received_chunks) = total_chunks

\* The step in which the sender gives EOF to the socket.
EmitsEOF == spc = "loop" /\ spc' = "done"

NeverAhead == send_base <= expected_seq /\ expected_seq <= total_chunks

\* C23: over a network that loses, reorders and duplicates datagrams, the
\* sender's send_base never exceeds the receiver's expected_seq, which never
\* exceeds total_chunks; the sender emits EOF only when the receiver has
\* delivered every chunk 0..total_chunks-1, and it emits nothing after it,
\* so EOF is emitted once.
SenderNeverAhead ==
    /\ [](NeverAhead /\ (create_eof_packet \in s2r => spc = "done"))
    /\ [][/\ EmitsEOF => AllDelivered
          /\ spc = "done" => spc' = "done" /\ s2r' \subseteq s2r]_vars

\* EOF has been emitted for the largest file after a timeout and a
\* duplicate ACK, with every chunk delivered.
SenderNeverAheadWitness ==
    /\ spc = "done"
    /\ file = LargestFile
    /\ AllDelivered
    /\ total_chunks >= 3
    /\ ssthresh < SSTHRESH_INIT
    /\ dups = MaxDup

====
